---- MODULE Spec2Model ----
(***************************************************************************)
(* Model of the CoAP message codec coapp::pdu (modern-coapp).              *)
(*                                                                         *)
(* A pdu is a record of its private fields.  Byte buffers are sequences of *)
(* integers 0..255; C++ iterators are 0-based offsets into them.  The two  *)
(* shapes of the class that the repository holds are both modelled: the    *)
(* one that keeps its options in a std::vector (impl = "vector") and the   *)
(* one that keeps them in a std::multimap (impl = "multimap").             *)
(***************************************************************************)
EXTENDS Integers, Sequences, FiniteSets, TLC

VARIABLES impl,     \* which pdu class is compiled in: "vector" or "multimap"
          ndebug,   \* TRUE when the build defines NDEBUG (assert compiled out)
          msg,      \* the pdu object the caller holds
          bytes,    \* the buffer the caller received
          res,      \* outcome of the last pdu::from call
          out,      \* outcome of the last to_bytes call
          thrown,   \* TRUE when the last mutator call threw invalid_pdu
          loop      \* a pdu::from call taken step by step: where it stands
                    \* (pc) and its locals it, option_number, result

vars == <<impl, ndebug, msg, bytes, res, out, thrown, loop>>

----------------------------------------------------------------------------
(* Fixed-width arithmetic                                                  *)

U8 == 256

U16 == 65536

SeparatorByte == 255

\* A uint32_t is held as its two 16-bit halves, hi * 65536 + lo.
u32(n) == [ hi |-> (n \div U16) % U16, lo |-> n % U16 ]

\* a - b in uint32_t
u32_sub(a, b) ==
    LET borrow == IF a.lo < b.lo THEN 1 ELSE 0
    IN  [ hi |-> (a.hi - b.hi - borrow + 2 * U16) % U16,
          lo |-> (a.lo - b.lo + U16) % U16 ]

\* a < k for a uint32_t a and a constant k <= 65536
u32_lt(a, k) == a.hi = 0 /\ a.lo < k

RECURSIVE BitOr(_, _)
BitOr(a, b) ==
    IF a = 0 THEN b
    ELSE IF b = 0 THEN a
    ELSE (IF (a % 2 = 1) \/ (b % 2 = 1) THEN 1 ELSE 0)
         + 2 * BitOr(a \div 2, b \div 2)

----------------------------------------------------------------------------
(* The pdu object                                                          *)

option(number, value) == [number |-> number, value |-> value]

DefaultPdu ==
    [ _version    |-> 1,
      _type       |-> 0,
      _code       |-> 0,
      _message_id |-> 0,
      _token      |-> << >>,
      _options    |-> << >>,
      _payload    |-> << >> ]

----------------------------------------------------------------------------
(* pdu::from                                                               *)

\* *it for an iterator at offset it.  An offset at or past bytes.end() is a
\* read outside the vector: the value it yields is whatever the build finds
\* there, taken from a caller-chosen g.
Deref(b, it, g) ==
    IF it < Len(b) THEN b[it + 1] ELSE g[(it - Len(b)) % 4]

\* header >> 6
version_of(header) == header \div 64

\* (header & 0b00110000) >> 4
type_of(header) == (header \div 16) % 4

\* (a mask one bit short: header & 0b00000111)
token_length_of_3bit(header) == header % 8

\* header & 0b00001111
token_length_of(header) == header % 16

\* (the two bytes taken low byte first)
message_id_of_little_endian(b) == BitOr(b[4] * 256, b[3]) % U16

\* (bytes[2] << 8) | bytes[3], stored in a uint16_t
message_id_of(b) == BitOr(b[3] * 256, b[4]) % U16

\* (a token_offset one byte early)
token_of_shifted(b, token_length) == SubSeq(b, 4, 3 + token_length)

\* { token_offset, it }: the token_length bytes behind the header
token_of(b, token_length) == SubSeq(b, 5, 4 + token_length)

\* (parse_value without its val == 15 branch)
parse_value_no_reserved(b, it, val, g) ==
    IF val = 13 THEN
        [ val |-> 13 + Deref(b, it + 1, g), it |-> it + 1,
          throw |-> FALSE, oob |-> it + 1 >= Len(b) ]
    ELSE IF val = 14 THEN
        [ val |-> 269 + BitOr(Deref(b, it + 1, g) * 256, Deref(b, it + 2, g)),
          it |-> it + 2, throw |-> FALSE, oob |-> it + 2 >= Len(b) ]
    ELSE
        [ val |-> val, it |-> it, throw |-> FALSE, oob |-> FALSE ]

\* (the two extension bytes of the 14 case taken low byte first)
parse_value_low_first(b, it, val, g) ==
    IF val = 13 THEN
        [ val |-> 13 + Deref(b, it + 1, g), it |-> it + 1,
          throw |-> FALSE, oob |-> it + 1 >= Len(b) ]
    ELSE IF val = 14 THEN
        [ val |-> 269 + BitOr(Deref(b, it + 2, g) * 256, Deref(b, it + 1, g)),
          it |-> it + 2, throw |-> FALSE, oob |-> it + 2 >= Len(b) ]
    ELSE IF val = 15 THEN
        [ val |-> val, it |-> it, throw |-> TRUE, oob |-> FALSE ]
    ELSE
        [ val |-> val, it |-> it, throw |-> FALSE, oob |-> FALSE ]

\* parse_value: resolves one nibble, advancing the iterator over its
\* extension bytes.  oob records a read at or past bytes.end().  The two
\* ++it of the 14 case are taken left to right, the order in which the
\* repository's tests pass (first byte high, second byte low).
parse_value(b, it, val, g) ==
    IF val = 13 THEN
        [ val |-> 13 + Deref(b, it + 1, g), it |-> it + 1,
          throw |-> FALSE, oob |-> it + 1 >= Len(b) ]
    ELSE IF val = 14 THEN
        [ val |-> 269 + BitOr(Deref(b, it + 1, g) * 256, Deref(b, it + 2, g)),
          it |-> it + 2, throw |-> FALSE, oob |-> it + 2 >= Len(b) ]
    ELSE IF val = 15 THEN
        [ val |-> val, it |-> it, throw |-> TRUE, oob |-> FALSE ]
    ELSE
        [ val |-> val, it |-> it, throw |-> FALSE, oob |-> FALSE ]

\* (the check of option_end left out)
option_overruns_unchecked(b, option_end) == FALSE

\* if (option_end > bytes.end()) throw
option_overruns(b, option_end) == option_end > Len(b)

\* { it, option_end }: the option value
value_of(b, it, option_end, g) ==
    [ k \in 1..(option_end - it) |-> Deref(b, it + k - 1, g) ]

\* _options.emplace_back(...) of the vector class
emplace_back(opts, opt) == Append(opts, opt)

\* (the new element put at the lower bound of its key, before its equals)
emplace_lower_bound(opts, opt) ==
    LET k == Cardinality({ i \in 1..Len(opts) : opts[i].number < opt.number })
    IN  SubSeq(opts, 1, k) \o << opt >> \o SubSeq(opts, k + 1, Len(opts))

\* _options.emplace(make_pair(number, value)) of the multimap class: the new
\* element goes to the upper bound of its key.
emplace(opts, opt) ==
    LET k == Cardinality({ i \in 1..Len(opts) : opts[i].number <= opt.number })
    IN  SubSeq(opts, 1, k) \o << opt >> \o SubSeq(opts, k + 1, Len(opts))

\* (the loop condition without its test for the separator)
at_option_to_the_end(b, it) == it < Len(b)

\* it < bytes.end() && (*it) != 0xff: the condition of the option loop
at_option(b, it) == it < Len(b) /\ b[it + 1] # SeparatorByte

\* (the it++ that steps over the descriptor and its extension bytes left out)
past_descriptor_missing(it) == it

\* it++ (line 86): from the last byte of the descriptor and its extension
\* bytes to the first byte of the value
past_descriptor(it) == it + 1

\* (the delta taken as the number, not added to the number before it)
next_option_number_not_accumulated(option_number, option_delta) == option_delta

\* option_number += option_delta (line 91).
\* option_number is a uint32_t; a buffer would need more than 65000 options
\* for the sum of its deltas to pass 2^32, so the sum is kept exact here.
next_option_number(option_number, option_delta) == option_number + option_delta

\* One iteration of the option loop (the body of the while, lines 69-97), for
\* it at a descriptor.  throw = TRUE: the iteration threw invalid_pdu();
\* otherwise it is option_end, option_number the accumulated number and
\* options the list with the new option in it.
option_loop_body(im, b, it, option_number, opts, oob, g) ==
    LET d  == parse_value(b, it, b[it + 1] \div 16, g)
    IN  IF d.throw THEN
            [ throw |-> TRUE, it |-> d.it, option_number |-> option_number,
              options |-> opts, oob |-> oob ]
        ELSE
        LET l  == parse_value(b, d.it, b[it + 1] % 16, g)
            o  == oob \/ d.oob \/ l.oob
        IN  IF l.throw THEN
                [ throw |-> TRUE, it |-> l.it, option_number |-> option_number,
                  options |-> opts, oob |-> o ]
            ELSE
            LET it1        == past_descriptor(l.it)
                option_end == it1 + l.val
            IN  IF option_overruns(b, option_end) THEN
                    [ throw |-> TRUE, it |-> it1, option_number |-> option_number,
                      options |-> opts, oob |-> o ]
                ELSE
                LET n   == next_option_number(option_number, d.val)
                    opt == option(n, value_of(b, it1, option_end, g))
                IN  [ throw |-> FALSE, it |-> option_end, option_number |-> n,
                      options |-> IF im = "vector" THEN emplace_back(opts, opt)
                                                   ELSE emplace(opts, opt),
                      oob |-> o ]

\* The option loop: while (it < bytes.end() && (*it) != 0xff) { ... }
RECURSIVE ParseOptions(_, _, _, _, _, _, _)
ParseOptions(im, b, it, option_number, opts, oob, g) ==
    IF ~at_option(b, it) THEN
        [ throw |-> FALSE, it |-> it, options |-> opts, oob |-> oob ]
    ELSE
        LET s == option_loop_body(im, b, it, option_number, opts, oob, g)
        IN  IF s.throw THEN
                [ throw |-> TRUE, it |-> s.it, options |-> opts, oob |-> s.oob ]
            ELSE ParseOptions(im, b, s.it, s.option_number, s.options, s.oob, g)

\* (the payload cut at the next byte 0xFF, as if it were a separator too)
payload_of_up_to_separator(b, it) ==
    LET rest == SubSeq(b, it + 2, Len(b))
        seps == { k \in 1..Len(rest) : rest[k] = SeparatorByte }
    IN  IF seps = {} THEN rest
        ELSE SubSeq(rest, 1, (CHOOSE k \in seps : \A j \in seps : k <= j) - 1)

\* (the separator not skipped)
payload_of_with_separator(b, it) == SubSeq(b, it + 1, Len(b))

\* it++ over the separator, then { it, bytes.end() }
payload_of(b, it) == SubSeq(b, it + 2, Len(b))

Thrown == [ throw |-> TRUE, pdu |-> DefaultPdu, oob |-> FALSE ]

\* from up to the option loop (lines 31-63): the checks of size, version and
\* token length, the header fields and the token.  throw = TRUE stands for
\* `throw invalid_pdu()`; returned = TRUE for the `return result` of line 63
\* (nothing behind the token); otherwise it is the offset the loop starts at.
from_prologue(b) ==
    LET stop == [ throw |-> TRUE, returned |-> FALSE, pdu |-> DefaultPdu, it |-> 0 ]
    IN
    IF Len(b) < 4 THEN stop
    ELSE
    LET header       == b[1]
        version      == version_of(header)
        token_length == token_length_of(header)
    IN  IF version # 1 THEN stop
        ELSE IF token_length > 8 THEN stop
        ELSE
        LET it0 == 4 + token_length
            r0  == [ DefaultPdu EXCEPT
                       !._version    = version,
                       !._type       = type_of(header),
                       !._code       = b[2],
                       !._message_id = message_id_of(b) ]
        IN  IF it0 > Len(b) THEN stop
            ELSE [ throw    |-> FALSE,
                   returned |-> it0 >= Len(b),
                   pdu      |-> [ r0 EXCEPT !._token = token_of(b, token_length) ],
                   it       |-> it0 ]

\* from behind the option loop (lines 100-109), it where the loop was left.
from_epilogue(b, result, it, oob) ==
    IF it >= Len(b) THEN
        [ throw |-> FALSE, pdu |-> result, oob |-> oob ]
    ELSE
        [ throw |-> FALSE,
          pdu   |-> [ result EXCEPT !._payload = payload_of(b, it) ],
          oob   |-> oob ]

\* static pdu from(bytes): throw = TRUE stands for `throw invalid_pdu()`, and
\* then no pdu is returned (the pdu field is a placeholder).
from(im, b, g) ==
    LET h == from_prologue(b)
    IN  IF h.throw THEN Thrown
        ELSE IF h.returned THEN
            [ throw |-> FALSE, pdu |-> h.pdu, oob |-> FALSE ]
        ELSE
        LET p == ParseOptions(im, b, h.it, 0, << >>, FALSE, g)
        IN  IF p.throw THEN [ Thrown EXCEPT !.oob = p.oob ]
            ELSE from_epilogue(b, [ h.pdu EXCEPT !._options = p.options ],
                               p.it, p.oob)

----------------------------------------------------------------------------
(* pdu::to_bytes                                                           *)

\* (the two-byte extension counted as one byte)
get_size_short(val) == IF u32_lt(val, 13) THEN 0 ELSE 1

\* get_size: the extension bytes a delta or length needs
\* (val is a uint32_t, see u32)
get_size(val) ==
    IF u32_lt(val, 13) THEN 0
    ELSE IF u32_lt(val, 269) THEN 1
    ELSE 2

\* (the one-byte range ending one value early)
get_nibble_off_by_one(val) ==
    IF u32_lt(val, 13) THEN val.lo
    ELSE IF u32_lt(val, 268) THEN 13
    ELSE 14

get_nibble(val) ==
    IF u32_lt(val, 13) THEN val.lo
    ELSE IF u32_lt(val, 269) THEN 13
    ELSE 14

\* (the operands of the subtraction swapped)
option_delta_swapped(number, prev_delta) == u32_sub(u32(prev_delta), u32(number))

\* option.number - prev_delta, computed in uint32_t
option_delta(number, prev_delta) == u32_sub(u32(number), u32(prev_delta))

\* First pass of the vector class: the bytes the option list will take.
RECURSIVE options_size(_, _, _)
options_size(opts, i, prev_delta) ==
    IF i > Len(opts) THEN 0
    ELSE 1 + get_size(option_delta(opts[i].number, prev_delta))
           + get_size(u32(Len(opts[i].value)))
           + Len(opts[i].value)
           + options_size(opts, i + 1, opts[i].number)

\* (the separator byte counted also when the payload is empty)
required_size_always_separator(m) ==
    4 + Len(m._token) + 1 + Len(m._payload) + options_size(m._options, 1, 0)

required_size(m) ==
    4 + Len(m._token)
      + (IF Len(m._payload) # 0 THEN 1 + Len(m._payload) ELSE 0)
      + options_size(m._options, 1, 0)

\* A writer is the output vector, the write iterator, and two flags: ovf, a
\* store at or past the end of the vector, and abort, a failed assert.
Writer(size) ==
    [ bytes |-> [ k \in 1..size |-> 0 ], it |-> 0, ovf |-> FALSE, abort |-> FALSE ]

\* *(iterator at offset at) = v, narrowed to uint8_t
Store(w, at, v) ==
    IF at < Len(w.bytes) THEN [ w EXCEPT !.bytes[at + 1] = v % U8 ]
    ELSE [ w EXCEPT !.ovf = TRUE ]

\* std::copy(s.begin(), s.end(), iterator at offset at)
Copy(w, s, at) ==
    [ w EXCEPT
        !.bytes = [ k \in 1..Len(w.bytes) |->
                      IF k - 1 >= at /\ k - 1 < at + Len(s) THEN s[k - at]
                      ELSE w.bytes[k] ],
        !.ovf   = w.ovf \/ (Len(s) > 0 /\ at + Len(s) > Len(w.bytes)) ]

\* (the two extension bytes of the 14 case written low byte first)
encode_val_low_first(w, nibble, val, nd) ==
    IF nibble < 13 THEN w
    ELSE IF nibble = 13 THEN
        [ Store(w, w.it + 1, val.lo - 13) EXCEPT !.it = w.it + 1 ]
    ELSE IF nibble = 14 THEN
        LET encoded_val == u32_sub(val, u32(269))
        IN  IF ~nd /\ ~u32_lt(encoded_val, U16) THEN [ w EXCEPT !.abort = TRUE ]
            ELSE [ Store(Store(w, w.it + 1, encoded_val.lo),
                         w.it + 2, encoded_val.lo \div 256)
                   EXCEPT !.it = w.it + 2 ]
    ELSE w

\* encode_val of the vector class: the extension bytes of one nibble, each
\* written through *(++it).
encode_val(w, nibble, val, nd) ==
    IF nibble < 13 THEN w
    ELSE IF nibble = 13 THEN
        [ Store(w, w.it + 1, val.lo - 13) EXCEPT !.it = w.it + 1 ]
    ELSE IF nibble = 14 THEN
        LET encoded_val == u32_sub(val, u32(269))
        IN  IF ~nd /\ ~u32_lt(encoded_val, U16) THEN [ w EXCEPT !.abort = TRUE ]
            ELSE [ Store(Store(w, w.it + 1, encoded_val.lo \div 256),
                         w.it + 2, encoded_val.lo)
                   EXCEPT !.it = w.it + 2 ]
    ELSE w

\* Second pass of the vector class, one loop iteration per option.
RECURSIVE WriteOptions(_, _, _, _, _)
WriteOptions(w, opts, i, prev_delta, nd) ==
    IF i > Len(opts) \/ w.abort THEN w
    ELSE
    LET delta         == option_delta(opts[i].number, prev_delta)
        size          == u32(Len(opts[i].value))
        delta_nibble  == get_nibble(delta)
        length_nibble == get_nibble(size)
        w1 == Store(w, w.it, BitOr(delta_nibble * 16, length_nibble))
        w2 == encode_val(w1, delta_nibble, delta, nd)
        w3 == IF w2.abort THEN w2 ELSE encode_val(w2, length_nibble, size, nd)
        w4 == IF w3.abort THEN w3
              ELSE [ Copy(w3, opts[i].value, w3.it + 1)
                     EXCEPT !.it = w3.it + 1 + Len(opts[i].value) ]
    IN  WriteOptions(w4, opts, i + 1, opts[i].number, nd)

\* Header and token, common to both classes.
WriteHeader(w, m) ==
    LET h0 == Store(w, 0, BitOr(BitOr(m._version * 64, m._type * 16),
                                Len(m._token)))
        h1 == Store(h0, 1, m._code)
        h2 == Store(h1, 2, m._message_id \div 256)
        h3 == Store(h2, 3, m._message_id)
    IN  [ Copy(h3, m._token, 4) EXCEPT !.it = 4 + Len(m._token) ]

\* Payload, common to both classes.
\* (the separator byte never stored: its place keeps the 0 of the
\* value-initialised vector)
WritePayload_no_separator(w, m) ==
    IF w.abort THEN w
    ELSE IF Len(m._payload) # 0 THEN
        [ Copy(w, m._payload, w.it + 1) EXCEPT !.it = w.it + 1 ]
    ELSE w

WritePayload(w, m) ==
    IF w.abort THEN w
    ELSE IF Len(m._payload) # 0 THEN
        [ Copy(Store(w, w.it, SeparatorByte), m._payload, w.it + 1)
          EXCEPT !.it = w.it + 1 ]
    ELSE w

\* to_bytes of the vector class: precomputed size, then writes through it.
to_bytes_vector(m, nd) ==
    LET size == required_size(m)
        w0   == WriteHeader(Writer(size), m)
        w1   == WriteOptions(w0, m._options, 1, 0, nd)
    IN  WritePayload(w1, m) @@ [ required_size |-> size ]

\* encode_val of the multimap class: push_back into options_buf.
encode_val_buf(buf, nibble, val, nd) ==
    IF nibble < 13 THEN [ buf |-> buf, abort |-> FALSE ]
    ELSE IF nibble = 13 THEN
        [ buf |-> Append(buf, (val.lo - 13) % U8), abort |-> FALSE ]
    ELSE IF nibble = 14 THEN
        LET encoded_val == u32_sub(val, u32(269))
        IN  IF ~nd /\ ~u32_lt(encoded_val, U16) THEN [ buf |-> buf, abort |-> TRUE ]
            ELSE [ buf   |-> buf \o << (encoded_val.lo \div 256) % U8,
                                       encoded_val.lo % U8 >>,
                   abort |-> FALSE ]
    ELSE [ buf |-> buf, abort |-> FALSE ]

\* The option loop of the multimap class, filling options_buf.
RECURSIVE StageOptions(_, _, _, _, _)
StageOptions(buf, opts, i, prev_delta, nd) ==
    IF i > Len(opts) THEN [ buf |-> buf, abort |-> FALSE ]
    ELSE
    LET delta         == option_delta(opts[i].number, prev_delta)
        size          == u32(Len(opts[i].value))
        delta_nibble  == get_nibble(delta)
        length_nibble == get_nibble(size)
        b1 == Append(buf, BitOr(delta_nibble * 16, length_nibble) % U8)
        e2 == encode_val_buf(b1, delta_nibble, delta, nd)
        e3 == IF e2.abort THEN e2
              ELSE encode_val_buf(e2.buf, length_nibble, size, nd)
    IN  IF e3.abort THEN e3
        ELSE StageOptions(e3.buf \o opts[i].value, opts, i + 1,
                          opts[i].number, nd)

\* to_bytes of the multimap class: options staged in options_buf, copied once.
to_bytes_multimap(m, nd) ==
    LET base  == 4 + Len(m._token)
                   + (IF Len(m._payload) # 0 THEN 1 + Len(m._payload) ELSE 0)
        stage == IF Len(m._options) # 0
                 THEN StageOptions(<< >>, m._options, 1, 0, nd)
                 ELSE [ buf |-> << >>, abort |-> FALSE ]
        size  == base + Len(stage.buf)
        w0    == WriteHeader(Writer(size), m)
        w1    == IF Len(stage.buf) # 0
                 THEN [ Copy(w0, stage.buf, w0.it)
                        EXCEPT !.it = w0.it + Len(stage.buf) ]
                 ELSE w0
    IN  IF stage.abort
        THEN [ Writer(0) EXCEPT !.abort = TRUE ] @@ [ required_size |-> base ]
        ELSE WritePayload(w1, m) @@ [ required_size |-> size ]

\* to_bytes of the class compiled in.  abort = TRUE: the assert failed and the
\* process ended inside the call; otherwise bytes is the vector returned.
to_bytes(im, m, nd) ==
    IF im = "vector" THEN to_bytes_vector(m, nd) ELSE to_bytes_multimap(m, nd)

----------------------------------------------------------------------------
(* Mutators                                                                *)

\* Each mutator yields the pdu after the call and whether the call threw.
\* (the range check left out)
set_type_unchecked(m, type) ==
    [ pdu |-> [ m EXCEPT !._type = type ], throw |-> FALSE ]

set_type(m, type) ==
    IF type > 3 THEN [ pdu |-> m, throw |-> TRUE ]
    ELSE [ pdu |-> [ m EXCEPT !._type = type ], throw |-> FALSE ]

set_code(m, code) ==
    [ pdu |-> [ m EXCEPT !._code = code ], throw |-> FALSE ]

set_message_id(m, mid) ==
    [ pdu |-> [ m EXCEPT !._message_id = mid ], throw |-> FALSE ]

\* (the token assigned before its length is checked)
set_token_assign_first(m, token) ==
    [ pdu |-> [ m EXCEPT !._token = token ], throw |-> Len(token) > 8 ]

set_token(m, token) ==
    IF Len(token) > 8 THEN [ pdu |-> m, throw |-> TRUE ]
    ELSE [ pdu |-> [ m EXCEPT !._token = token ], throw |-> FALSE ]

\* add_option of the vector class: _options.push_back(opt)
add_option_vector(m, opt) ==
    [ pdu |-> [ m EXCEPT !._options = Append(@, opt) ], throw |-> FALSE ]

\* add_option of the multimap class: _options.emplace(number, value)
add_option_multimap(m, opt) ==
    [ pdu |-> [ m EXCEPT !._options = emplace(@, opt) ], throw |-> FALSE ]

add_option(im, m, opt) ==
    IF im = "vector" THEN add_option_vector(m, opt)
    ELSE add_option_multimap(m, opt)

set_payload(m, payload) ==
    [ pdu |-> [ m EXCEPT !._payload = payload ], throw |-> FALSE ]

----------------------------------------------------------------------------
(* Bounds and input sets                                                   *)

MaxOpts == 2

MaxTail == 3

Impls == { "vector", "multimap" }

Iota(n) == [ k \in 1..n |-> k ]

TypeArgs == { 0, 2, 4 }

CodeArgs == { 0, 69 }

MidArgs == { 0, 4660 }

TokenArgs == { << >>, << 1, 2 >>, Iota(9) }

OptionArgs ==
    { option(1, << >>), option(1, << 255 >>), option(20, << 255 >>),
      option(300, << 7 >>), option(70000, << >>) }

PayloadArgs == { << >>, << 66 >> }

\* What a read past the end of the input may return.
Garbage == [ 0..3 -> { 0, 255 } ]

SeqsUpTo(S, n) == UNION { [ 1..k -> S ] : k \in 0..n }

\* Buffers handed to pdu::from.  A start is byte 0, code 2, message id
\* 0x1234 and a run 1, 2, ... (a token, when byte 0 announces one); behind it
\* come up to MaxTail bytes that read as descriptors, extension bytes, values,
\* separator or payload.  Byte 0: 0x40 (token length 0), 0x61 (type 2, token
\* length 1), 0x48 (token length 8), 0x49 (token length 9), 0xC0 (version 3),
\* 0x0 (version 0).
Start(h, n) == << h, 2, 18, 52 >> \o Iota(n)

GoodStarts ==
    { Start(64, 0), Start(64, 1), Start(97, 0), Start(97, 1),
      Start(72, 7), Start(72, 8) }

BadStarts == { Start(73, 0), Start(73, 9), Start(192, 0), Start(0, 0) }

\* 0x11, 0xD1, 0xE0, 0x1F, 0xF1, 0xFF and 0x01
TailBytes == { 17, 209, 224, 31, 241, 255, 1 }

\* The buffers of the repository's parse tests.
TestVectors ==
    { << 104, 2, 1, 0, 1, 2, 3, 4, 5, 6, 7, 8, 255, 65, 65, 65 >>,
      << 96, 2, 1, 0, 17 >>,
      << 96, 2, 1, 0, 17, 255, 17, 255, 51, 255, 255, 255,
         211, 255, 255, 255, 255, 227, 255, 255, 255, 255, 255,
         255, 66, 66, 66, 66 >> }

Inputs ==
    { SubSeq(s, 1, n) : s \in GoodStarts \cup BadStarts, n \in 0..3 }
    \cup { s \o r : s \in BadStarts, r \in SeqsUpTo(TailBytes, 1) }
    \cup { s \o r : s \in GoodStarts, r \in SeqsUpTo(TailBytes, MaxTail) }
    \cup TestVectors

----------------------------------------------------------------------------
(* The callers                                                             *)

NoRes == [ called |-> FALSE, throw |-> FALSE, pdu |-> DefaultPdu, oob |-> FALSE ]

NoOut ==
    [ called |-> FALSE, bytes |-> << >>, it |-> 0, ovf |-> FALSE,
      abort |-> FALSE, required_size |-> 0 ]

\* No call of from in progress: its locals do not exist.
NoLoop ==
    [ pc |-> "idle", it |-> 0, option_number |-> 0, pdu |-> DefaultPdu,
      oob |-> FALSE, trail |-> << >> ]

Build ==
    /\ impl \in Impls
    /\ ndebug \in BOOLEAN
    /\ msg = DefaultPdu
    /\ res = NoRes
    /\ out = NoOut
    /\ thrown = FALSE
    /\ loop = NoLoop

\* A caller that builds a pdu with the mutators.
Init == Build /\ bytes = << >>

\* A caller that receives a buffer.
InitDecode == Build /\ bytes \in Inputs

\* A mutator call: the pdu changes as the mutator says, earlier results of
\* to_bytes and from are dropped.
Mutate(r) ==
    /\ msg' = r.pdu
    /\ thrown' = r.throw
    /\ res' = NoRes
    /\ out' = NoOut
    /\ UNCHANGED << impl, ndebug, bytes, loop >>

SetType == \E t \in TypeArgs : Mutate(set_type(msg, t))

SetCode == \E c \in CodeArgs : Mutate(set_code(msg, c))

SetMessageId == \E mid \in MidArgs : Mutate(set_message_id(msg, mid))

SetToken == \E t \in TokenArgs : Mutate(set_token(msg, t))

AddOption ==
    /\ Len(msg._options) < MaxOpts
    /\ \E opt \in OptionArgs : Mutate(add_option(impl, msg, opt))

SetPayload == \E p \in PayloadArgs : Mutate(set_payload(msg, p))

\* msg.to_bytes()
ToBytes ==
    /\ out' = to_bytes(impl, msg, ndebug) @@ [ called |-> TRUE ]
    /\ UNCHANGED << impl, ndebug, msg, bytes, res, thrown, loop >>

\* pdu::from(msg.to_bytes()): the buffer just encoded is parsed again.
Reparse ==
    /\ out.called /\ ~out.abort
    /\ \E g \in Garbage : res' = from(impl, out.bytes, g) @@ [ called |-> TRUE ]
    /\ UNCHANGED << impl, ndebug, msg, bytes, out, thrown, loop >>

\* msg = pdu::from(bytes): the received buffer is parsed; the caller holds the
\* pdu when from returns one.
Parse ==
    /\ ~res.called
    /\ \E g \in Garbage : res' = from(impl, bytes, g) @@ [ called |-> TRUE ]
    /\ msg' = IF res'.throw THEN msg ELSE res'.pdu
    /\ out' = NoOut
    /\ UNCHANGED << impl, ndebug, bytes, thrown, loop >>

Next ==
    \/ SetType
    \/ SetCode
    \/ SetMessageId
    \/ SetToken
    \/ AddOption
    \/ SetPayload
    \/ ToBytes
    \/ Reparse

Spec == Init /\ [][Next]_vars

NextDecode ==
    \/ Parse
    \/ ToBytes

SpecDecode == InitDecode /\ [][NextDecode]_vars

----------------------------------------------------------------------------
(* The wire format, read off the buffer alone                              *)

\* Extension bytes a nibble announces.
ExtBytes(nibble) == IF nibble = 13 THEN 1 ELSE IF nibble = 14 THEN 2 ELSE 0

\* The header is acceptable and the token it announces is present.
HeaderAndTokenPresent(b) ==
    /\ Len(b) >= 4
    /\ b[1] \div 64 = 1
    /\ b[1] % 16 <= 8
    /\ Len(b) >= 4 + (b[1] % 16)

\* The entry whose descriptor is at offset p (p < Len(b)).
EntryAt(b, p) ==
    LET dn    == b[p + 1] \div 16
        ln    == b[p + 1] % 16
        ext   == ExtBytes(dn) + ExtBytes(ln)
        lpos  == p + ExtBytes(dn) + 1
        noExt == p + ext >= Len(b) /\ ext > 0
        len   == IF ln = 13 THEN 13 + b[lpos + 1]
                 ELSE IF ln = 14 THEN 269 + b[lpos + 1] * 256 + b[lpos + 2]
                 ELSE ln
    IN  [ reserved  |-> dn = 15 \/ ln = 15,
          truncated |-> noExt \/ (ln # 15 /\ ~noExt /\ p + 1 + ext + len > Len(b)),
          end       |-> IF noExt \/ ln = 15 THEN Len(b) ELSE p + 1 + ext + len ]

\* Walks the entries from offset p: at is where the walk stops, at the end of
\* the buffer ("end"), on a separator byte ("separator"), or on the first
\* entry that is not a complete well-formed entry ("bad", with what is wrong
\* with it).
RECURSIVE Walk(_, _)
Walk(b, p) ==
    IF p >= Len(b) THEN
        [ stop |-> "end", at |-> p, reserved |-> FALSE, truncated |-> FALSE ]
    ELSE IF b[p + 1] = SeparatorByte THEN
        [ stop |-> "separator", at |-> p, reserved |-> FALSE, truncated |-> FALSE ]
    ELSE
        LET e == EntryAt(b, p)
        IN  IF e.reserved \/ e.truncated THEN
                [ stop |-> "bad", at |-> p,
                  reserved |-> e.reserved, truncated |-> e.truncated ]
            ELSE Walk(b, e.end)

\* The walk over the options of b, from behind the token.
Options(b) == Walk(b, 4 + (b[1] % 16))

\* The separator is the last byte of b: no payload follows it.
TrailingSeparator(b) ==
    /\ HeaderAndTokenPresent(b)
    /\ Options(b).stop = "separator"
    /\ Options(b).at = Len(b) - 1

\* A minimal encoding carries no byte that could be left out: the separator
\* is there only when a payload follows it.  (An extension byte is never
\* redundant: nibble 13 resolves to 13 or more, nibble 14 to 269 or more.)
Minimal(b) == ~TrailingSeparator(b)

----------------------------------------------------------------------------
(* Claims                                                                  *)

\* C1: round trip.  For every buffer that from accepts and that is a minimal
\* encoding, to_bytes of the decoded pdu returns exactly that buffer, byte
\* for byte and with the same length.
C1_RoundTrip ==
    (res.called /\ ~res.throw /\ out.called /\ Minimal(bytes))
        => (~out.abort /\ out.bytes = bytes /\ Len(out.bytes) = Len(bytes))

\* An accepted buffer with five options (one- and two-byte delta extensions
\* among them) and a payload has been decoded and encoded again.
C1_Witness ==
    /\ res.called /\ ~res.throw /\ out.called /\ Minimal(bytes)
    /\ Len(res.pdu._options) = 5
    /\ res.pdu._options[4].number = 273
    /\ res.pdu._options[5].number = 66077
    /\ Len(res.pdu._payload) > 0

\* C2: idempotence.  For every pdu reachable from the default pdu by
\* successful mutator calls, from(to_bytes(m)) succeeds and equals m field
\* for field.
C2_Idempotence ==
    /\ out.called => ~out.abort
    /\ res.called => (~res.throw /\ res.pdu = msg)

IsAscending(opts) ==
    \A i \in 1..(Len(opts) - 1) : opts[i].number <= opts[i + 1].number

\* C3: after any sequence of add_option calls, in whatever order of option
\* numbers, to_bytes iterates the options in ascending number order.
C3_AscendingOrder == IsAscending(msg._options)

MalformedHeader(b) ==
    \/ Len(b) < 4
    \/ b[1] \div 64 # 1
    \/ b[1] % 16 > 8

\* C4: from throws whenever the buffer has fewer than 4 bytes, the version
\* bits of byte 0 are not 1, or its token length bits exceed 8.
C4_MalformedHeader ==
    (res.called /\ MalformedHeader(bytes)) => res.throw

\* A buffer with version 1 and token length 9, nine bytes behind the header,
\* has been rejected.
C4_Witness ==
    /\ res.called /\ res.throw
    /\ Len(bytes) >= 13
    /\ bytes[1] \div 64 = 1
    /\ bytes[1] % 16 = 9

\* C5: from throws whenever the buffer ends before an option entry is
\* complete: an extension byte announced by a nibble 13 or 14 is missing, or
\* fewer bytes than the resolved length remain for the value.
C5_TruncatedOption ==
    (res.called /\ HeaderAndTokenPresent(bytes) /\ Options(bytes).truncated)
        => res.throw

\* A buffer whose last entry lacks an extension byte has been rejected, after
\* from read behind the end of the buffer.
C5_Witness ==
    /\ res.called /\ res.throw /\ res.oob
    /\ HeaderAndTokenPresent(bytes)
    /\ Options(bytes).truncated /\ ~Options(bytes).reserved
    /\ Options(bytes).at > 4 + (bytes[1] % 16)

\* C6: from throws whenever the delta nibble or the length nibble of an
\* option descriptor is 15, whatever the other nibble and whatever follows.
C6_ReservedNibble ==
    (res.called /\ HeaderAndTokenPresent(bytes) /\ Options(bytes).reserved)
        => res.throw

\* A buffer with a descriptor whose length nibble is 15, behind a complete
\* option and with bytes following it, has been rejected.
C6_Witness ==
    /\ res.called /\ res.throw
    /\ HeaderAndTokenPresent(bytes)
    /\ Options(bytes).reserved /\ ~Options(bytes).truncated
    /\ Options(bytes).at > 4 + (bytes[1] % 16)
    /\ Options(bytes).at < Len(bytes) - 1
    /\ bytes[Options(bytes).at + 1] % 16 = 15

\* C7: with a token length t <= 8 in the header, from throws when fewer than
\* t bytes follow the header, and the token of a decoded pdu is the t bytes
\* at offsets 4..4+t-1; t = 8 with 8 bytes present succeeds, t = 9 fails.
C7_Token ==
    (res.called /\ Len(bytes) >= 4 /\ bytes[1] \div 64 = 1) =>
        LET t == bytes[1] % 16
        IN  /\ (t <= 8 /\ Len(bytes) < 4 + t) => res.throw
            /\ ~res.throw => res.pdu._token = [ k \in 1..t |-> bytes[4 + k] ]
            /\ (t = 8 /\ Len(bytes) = 12) => ~res.throw
            /\ t >= 9 => res.throw

\* A buffer with token length 8 and exactly 8 bytes behind the header has
\* been decoded.
C7_Witness ==
    /\ res.called /\ ~res.throw
    /\ Len(bytes) = 12
    /\ bytes[1] % 16 = 8
    /\ Len(res.pdu._token) = 8

\* C8: from returns a pdu with an empty payload whenever a well-formed buffer
\* ends at an entry boundary: behind the token, behind the last option's
\* value, or behind a separator with no byte after it.  Four bytes with token
\* length 0 give an empty token and no options.
C8_EndsAtBoundary ==
    (/\ res.called
     /\ HeaderAndTokenPresent(bytes)
     /\ Options(bytes).stop = "end" \/ TrailingSeparator(bytes))
        => /\ ~res.throw
           /\ res.pdu._payload = << >>
           /\ Len(bytes) = 4 =>
                 (res.pdu._token = << >> /\ res.pdu._options = << >>)

\* A buffer that ends with a separator right behind an option has been
\* decoded.
C8_Witness ==
    /\ res.called /\ ~res.throw
    /\ TrailingSeparator(bytes)
    /\ Len(res.pdu._options) >= 1

\* Largest delta or length the extension scheme holds: 269 + 65535.
MaxExtended == 65804

\* The delta to_bytes computes for the i-th option it iterates, as an
\* integer; a smaller number behind a larger one wraps around in uint32_t to
\* a value above 2^31, which stands here as -1.
DeltaAt(opts, i) ==
    LET prev == IF i = 1 THEN 0 ELSE opts[i - 1].number
    IN  IF opts[i].number >= prev THEN opts[i].number - prev ELSE -1

\* Some delta or value length of m is outside 0..65804.
TooLarge(m) ==
    \E i \in 1..Len(m._options) :
        \/ DeltaAt(m._options, i) < 0
        \/ DeltaAt(m._options, i) > MaxExtended
        \/ Len(m._options[i].value) > MaxExtended

C10_ValueTooLarge ==
    (out.called /\ TooLarge(msg)) => out.abort

\* A caller that decodes a buffer and then edits the decoded pdu with the
\* mutators; on a rejected buffer it is left with the pdu it had built.
EditInputs ==
    TestVectors \cup
    { Start(97, 1), Start(192, 0) }

InitEdit == Build /\ bytes \in EditInputs

NextEdit ==
    \/ Parse
    \/ SetType
    \/ SetCode
    \/ SetMessageId
    \/ SetToken
    \/ AddOption
    \/ SetPayload

SpecEdit == InitEdit /\ [][NextEdit]_vars

\* A caller that builds a pdu with one option whose number (the delta of a
\* first option) and value length stand at the borders of the three nibble
\* encodings, encodes it and parses the bytes again.
BoundaryValues == { 0, 1, 12, 13, 14, 268, 269, 270, 524, 65804, 65805 }

BoundaryLengths == { 0, 12, 13, 268, 269, 270, 524 }

Filler(n) == [ k \in 1..n |-> k % U8 ]

BoundaryOptions ==
    { option(v, Filler(l)) : v \in BoundaryValues, l \in BoundaryLengths }

AddBoundaryOption ==
    /\ msg._options = << >>
    /\ \E opt \in BoundaryOptions : Mutate(add_option(impl, msg, opt))

NextExt ==
    \/ AddBoundaryOption
    \/ ToBytes
    \/ Reparse

SpecExt == Init /\ [][NextExt]_vars

\* pdu::from taken one loop iteration at a time, on the buffers of Inputs and
\* on buffers with zero-length options (descriptor 0x00).
LoopInputs ==
    Inputs \cup { Start(64, 0) \o r : r \in SeqsUpTo({ 0, 1, 255 }, MaxTail) }

InitLoop == Build /\ bytes \in LoopInputs

Returned(r) == r @@ [ called |-> TRUE ]

\* The call and the code in front of the loop (lines 21-67).
Enter ==
    /\ loop.pc = "idle"
    /\ LET h == from_prologue(bytes)
       IN  IF h.throw THEN
               /\ res' = Returned(Thrown)
               /\ loop' = [ NoLoop EXCEPT !.pc = "done" ]
           ELSE IF h.returned THEN
               /\ res' = Returned([ throw |-> FALSE, pdu |-> h.pdu, oob |-> FALSE ])
               /\ loop' = [ NoLoop EXCEPT !.pc = "done" ]
           ELSE
               /\ res' = NoRes
               /\ loop' = [ pc |-> "loop", it |-> h.it, option_number |-> 0,
                            pdu |-> h.pdu, oob |-> FALSE, trail |-> << h.it >> ]
    /\ UNCHANGED << impl, ndebug, msg, bytes, out, thrown >>

\* One iteration of the option loop (lines 68-98); trail collects the offsets
\* it has had at the loop condition.
Iterate ==
    /\ loop.pc = "loop"
    /\ at_option(bytes, loop.it)
    /\ \E g \in Garbage :
        LET s == option_loop_body(impl, bytes, loop.it, loop.option_number,
                                  loop.pdu._options, loop.oob, g)
        IN  IF s.throw THEN
                /\ res' = Returned([ Thrown EXCEPT !.oob = s.oob ])
                /\ loop' = [ loop EXCEPT !.pc = "done" ]
            ELSE
                /\ res' = res
                /\ loop' = [ loop EXCEPT !.it            = s.it,
                                         !.option_number = s.option_number,
                                         !.pdu._options  = s.options,
                                         !.oob           = s.oob,
                                         !.trail         = Append(@, s.it) ]
    /\ UNCHANGED << impl, ndebug, msg, bytes, out, thrown >>

\* The loop condition fails: the code behind the loop (lines 100-109).
Leave ==
    /\ loop.pc = "loop"
    /\ ~at_option(bytes, loop.it)
    /\ res' = Returned(from_epilogue(bytes, loop.pdu, loop.it, loop.oob))
    /\ loop' = [ loop EXCEPT !.pc = "done" ]
    /\ UNCHANGED << impl, ndebug, msg, bytes, out, thrown >>

\* The caller has the outcome (it holds the pdu when there is one); the
\* locals of the call are gone and from can be called again.
Return ==
    /\ loop.pc = "done"
    /\ msg' = IF res.throw THEN msg ELSE res.pdu
    /\ loop' = NoLoop
    /\ UNCHANGED << impl, ndebug, bytes, res, out, thrown >>

NextLoop ==
    \/ Enter
    \/ Iterate
    \/ Leave
    \/ Return

SpecLoop == InitLoop /\ [][NextLoop]_vars

\* The call, once made, is run to its end.
SpecLoopFair == SpecLoop /\ WF_vars(Enter \/ Iterate \/ Leave)

\* C11: set_type with a value outside 0..3 and set_token with more than 8
\* bytes both throw, and a call that throws leaves every field of the pdu as
\* it was before the call.
C11_FailedCallChangesNothing ==
    [][ /\ \A t \in TypeArgs :
              (t > 3 /\ Mutate(set_type(msg, t))) => (thrown' /\ msg' = msg)
        /\ \A t \in TokenArgs :
              (Len(t) > 8 /\ Mutate(set_token(msg, t))) => (thrown' /\ msg' = msg)
        /\ thrown' => msg' = msg ]_vars

\* A call has thrown on a pdu that earlier calls had given a type, a token,
\* an option and a payload.
C11_Witness ==
    /\ thrown
    /\ msg._type = 2
    /\ msg._token = << 1, 2 >>
    /\ Len(msg._options) >= 1
    /\ msg._payload # << >>

\* C12: every pdu obtained by a successful decode followed by mutator calls
\* (accepted or rejected), or by mutator calls on the default pdu, has
\* version 1, a type in 0..3 and a token of at most 8 bytes.
C12_FieldRanges ==
    /\ msg._version = 1
    /\ msg._type \in 0..3
    /\ Len(msg._token) <= 8

\* The pdu decoded from the repository's five-option test buffer (message id
\* 256, type 2) after a set_code that succeeded and a later call that threw.
C12_Witness ==
    /\ thrown
    /\ msg._message_id = 256
    /\ msg._type = 2
    /\ msg._code = 69
    /\ Len(msg._options) = 5

\* new is old with one element inserted, and no element after the inserted
\* one has its number: it went behind every option of equal number, and the
\* options that were there kept their order.
StableInsert(old, new) ==
    \E k \in 1..Len(new) :
        /\ old = SubSeq(new, 1, k - 1) \o SubSeq(new, k + 1, Len(new))
        /\ \A i \in (k + 1)..Len(new) : new[i].number # new[k].number

Values(opts) == [ i \in 1..Len(opts) |-> opts[i].value ]

\* C13: options of equal number keep their insertion order: add_option puts
\* the new option behind every option of the same number without reordering
\* the others, and the bytes to_bytes emits carry the option values in the
\* order of options() (read back by from).
C13_StableOrder ==
    [][ /\ Len(msg'._options) = Len(msg._options) + 1
           => StableInsert(msg._options, msg'._options)
        /\ (res'.called /\ ~res'.throw)
           => Values(res'.pdu._options) = Values(msg'._options) ]_vars

\* Two options of number 1 with different values, held by the multimap
\* class, encoded and read back.
C13_Witness ==
    /\ impl = "multimap"
    /\ msg._options = << option(1, << >>), option(1, << 255 >>) >>
    /\ res.called
    /\ ~res.throw

\* C14: for every buffer from accepts, version = byte0 >> 6,
\* type = (byte0 >> 4) & 3, code = byte 1, message_id = byte2 * 256 + byte3
\* and the token has byte0 & 15 bytes.
C14_HeaderFields ==
    (res.called /\ ~res.throw) =>
        /\ res.pdu._version = bytes[1] \div 64
        /\ res.pdu._type = (bytes[1] \div 16) % 4
        /\ res.pdu._code = bytes[2]
        /\ res.pdu._message_id = (bytes[3] * 256) + bytes[4]
        /\ Len(res.pdu._token) = bytes[1] % 16

\* An accepted buffer whose header byte carries type 2 and token length 1
\* and whose message id bytes differ (0x12, 0x34).
C14_Witness ==
    /\ res.called
    /\ ~res.throw
    /\ bytes[1] = 97
    /\ res.pdu._type = 2
    /\ res.pdu._message_id = 4660
    /\ Len(res.pdu._token) = 1

\* C15: to_bytes emits the separator byte 0xFF exactly when the payload is
\* not empty, and then the payload is the rest of the output; with an empty
\* payload the output ends right behind the last option (or the token) and
\* no separator stands at an option start.
C15_Separator ==
    (out.called /\ ~out.abort) =>
        LET w == Options(out.bytes)
        IN  /\ HeaderAndTokenPresent(out.bytes)
            /\ out.bytes[1] % 16 = Len(msg._token)
            /\ IF msg._payload = << >>
               THEN w.stop = "end" /\ w.at = Len(out.bytes)
               ELSE /\ w.stop = "separator"
                    /\ SubSeq(out.bytes, w.at + 2, Len(out.bytes)) = msg._payload
                    /\ Len(out.bytes) = w.at + 1 + Len(msg._payload)

\* An encoded pdu with a token, an option whose value is the byte 0xFF and
\* a payload.
C15_Witness ==
    /\ out.called
    /\ ~out.abort
    /\ msg._token = << 1, 2 >>
    /\ \E i \in 1..Len(msg._options) : msg._options[i].value = << 255 >>
    /\ msg._payload = << 66 >>

\* The other case of C15, also reached: an encoded pdu with an option and an
\* empty payload, whose output ends with the option.
C15_WitnessEmpty ==
    /\ out.called
    /\ ~out.abort
    /\ Len(msg._options) >= 1
    /\ msg._payload = << >>

\* The nibble and the extension bytes RFC 7252 gives a value in 0..65804.
Nibble(v) == IF v <= 12 THEN v ELSE IF v <= 268 THEN 13 ELSE 14

Extension(v) ==
    IF v <= 12 THEN << >>
    ELSE IF v <= 268 THEN << v - 13 >>
    ELSE << (v - 269) \div 256, (v - 269) % 256 >>

\* C16: for a delta d and a value length l in 0..65804, to_bytes writes the
\* descriptor Nibble(d) * 16 + Nibble(l), then the extension bytes of d, then
\* those of l (none up to 12, one byte v - 13 up to 268, two big-endian bytes
\* v - 269 up to 65804), and from resolves the encoding back to d and l.
C16_NibbleCoding ==
    (Len(msg._options) = 1 /\ msg._options[1].number <= MaxExtended) =>
        LET d == msg._options[1].number
            l == Len(msg._options[1].value)
        IN  /\ out.called =>
                /\ ~out.abort
                /\ out.bytes = SubSeq(out.bytes, 1, 4)
                                 \o << (Nibble(d) * 16) + Nibble(l) >>
                                 \o Extension(d) \o Extension(l)
                                 \o msg._options[1].value
            /\ res.called =>
                /\ ~res.throw
                /\ res.pdu._options = msg._options

\* The largest value, 65804, as a delta next to a length of 269, the
\* smallest that takes two extension bytes: encoded and parsed back.
C16_Witness ==
    /\ Len(msg._options) = 1
    /\ msg._options[1].number = 65804
    /\ Len(msg._options[1].value) = 269
    /\ out.called
    /\ res.called
    /\ ~res.throw

\* C17: every byte from reads lies at an index below the length of the
\* buffer: no input makes it read at or past bytes.end().
C17_ReadsInBounds == res.called => ~res.oob

\* C18: the encoder that precomputes the size and writes through a cursor
\* and the encoder that stages the options in a growable buffer return the
\* same bytes for the same field values and the same option iteration order
\* (and in a build with assertions they fail on the same pdus).
C18_SameBytes ==
    out.called =>
        LET v == to_bytes_vector(msg, ndebug)
            s == to_bytes_multimap(msg, ndebug)
        IN  /\ v.abort = s.abort
            /\ ~v.abort =>
                  /\ ~v.ovf /\ ~s.ovf
                  /\ v.bytes = s.bytes
                  /\ out.bytes = v.bytes

\* An encoded pdu with a token, two options, one of them with a delta that
\* takes two extension bytes, and a payload.
C18_Witness ==
    /\ out.called
    /\ ~out.abort
    /\ msg._token = << 1, 2 >>
    /\ msg._options = << option(1, << 255 >>), option(300, << 7 >>) >>
    /\ msg._payload = << 66 >>

\* The number of complete well-formed entries from offset p up to where the
\* walk stops.
RECURSIVE Entries(_, _)
Entries(b, p) ==
    IF p >= Len(b) \/ b[p + 1] = SeparatorByte THEN 0
    ELSE LET e == EntryAt(b, p)
         IN  IF e.reserved \/ e.truncated THEN 0 ELSE 1 + Entries(b, e.end)

\* C19: a byte 0xFF at an option start (behind the token or behind an
\* option's value) ends option parsing and is the payload separator: the
\* buffer is not rejected for it, the options returned are the entries in
\* front of it and the payload is what follows it; and in a buffer from
\* accepts the option loop has ended at such a byte or at the end of the
\* buffer, after all the entries in front of that point.
C19_SeparatorEndsOptions ==
    (res.called /\ HeaderAndTokenPresent(bytes)) =>
        LET w == Options(bytes)
            n == Entries(bytes, 4 + (bytes[1] % 16))
        IN  /\ w.stop = "separator" =>
                /\ ~res.throw
                /\ Len(res.pdu._options) = n
                /\ Len(res.pdu._payload) = Len(bytes) - (w.at + 1)
            /\ ~res.throw =>
                /\ w.stop \in { "end", "separator" }
                /\ Len(res.pdu._options) = n

\* An accepted buffer with one option whose value is the byte 0xFF and,
\* behind that value, the 0xFF that ends the options.
C19_Witness ==
    /\ res.called
    /\ ~res.throw
    /\ Options(bytes).stop = "separator"
    /\ Len(res.pdu._options) = 1
    /\ res.pdu._options[1].value = << SeparatorByte >>

\* C20: when from finds the separator and at least one byte follows it, the
\* payload is all the bytes behind that first separator up to the end of the
\* buffer, unchanged: bytes 0xFF and bytes that look like option descriptors
\* among them are payload.
C20_PayloadVerbatim ==
    (res.called /\ HeaderAndTokenPresent(bytes)) =>
        LET w == Options(bytes)
        IN  (w.stop = "separator" /\ w.at + 1 < Len(bytes)) =>
                /\ ~res.throw
                /\ res.pdu._payload =
                       [ k \in 1..(Len(bytes) - (w.at + 1)) |-> bytes[w.at + 1 + k] ]

\* A payload made of a byte 0xFF and a byte that reads as a descriptor
\* (0x11), behind the separator that follows a one-byte token.
C20_Witness ==
    /\ res.called
    /\ ~res.throw
    /\ Len(res.pdu._token) = 1
    /\ res.pdu._options = << >>
    /\ res.pdu._payload = << SeparatorByte, 17 >>

\* C21: from terminates on every buffer.  Every iteration of the option loop
\* moves it forward by at least one byte and never past the end of the
\* buffer, so the loop runs at most Len(bytes) times; the call ends with a
\* pdu or with invalid_pdu and no pdu, and which of the two is decided by the
\* bytes alone; when the call is over none of its locals is left for the
\* next call.
C21_DecodeTerminates ==
    LET t == loop.trail
    IN  /\ \A i \in 1..(Len(t) - 1) : t[i] < t[i + 1]
        /\ loop.pc = "loop" =>
              /\ loop.it = t[Len(t)]
              /\ loop.it <= Len(bytes)
              /\ ~res.called
        /\ loop.pc = "done" =>
              /\ res.called
              /\ res.throw => res.pdu = DefaultPdu
              /\ res.throw <=> \/ ~HeaderAndTokenPresent(bytes)
                               \/ Options(bytes).stop = "bad"
        /\ loop.pc = "idle" => loop = NoLoop

\* C21, as a liveness property of the call run under SpecLoopFair: a call
\* that is not over comes to its end.
C21_EventuallyDone == (loop.pc # "done") ~> (loop.pc = "done")

\* A second call of from on the same buffer (the caller holds the pdu of the
\* first) that has ended with a pdu after two loop iterations or more.
C21_Witness ==
    /\ loop.pc = "done"
    /\ Len(loop.trail) >= 3
    /\ ~res.throw
    /\ msg = res.pdu

\* The delta the entry at offset p resolves to, read off the buffer.
WireDelta(b, p) ==
    LET dn == b[p + 1] \div 16
    IN  IF dn = 13 THEN 13 + b[p + 2]
        ELSE IF dn = 14 THEN 269 + (b[p + 2] * 256) + b[p + 3]
        ELSE dn

\* The deltas of the complete well-formed entries from offset p on.
RECURSIVE WireDeltas(_, _)
WireDeltas(b, p) ==
    IF p >= Len(b) \/ b[p + 1] = SeparatorByte THEN << >>
    ELSE LET e == EntryAt(b, p)
         IN  IF e.reserved \/ e.truncated THEN << >>
             ELSE << WireDelta(b, p) >> \o WireDeltas(b, e.end)

RECURSIVE SumOfFirst(_, _)
SumOfFirst(ds, i) == IF i = 0 THEN 0 ELSE SumOfFirst(ds, i - 1) + ds[i]

C23_SizeMatchesWrites ==
    (out.called /\ impl = "vector") =>
        /\ ~out.ovf
        /\ ~out.abort =>
              /\ Len(out.bytes) = out.required_size
              /\ out.it + Len(msg._payload) = out.required_size

\* A pdu of the vector class with a token, options stored as 300 then 1 and a
\* payload, encoded by a build without assertions.
C23_Witness ==
    /\ impl = "vector"
    /\ ndebug
    /\ out.called
    /\ ~out.abort
    /\ msg._token = << 1, 2 >>
    /\ msg._options = << option(300, << 7 >>), option(1, << 255 >>) >>
    /\ msg._payload = << 66 >>

\* C24: for every buffer b that from accepts, to_bytes of the decoded pdu
\* returns b, except when b ends with a separator 0xFF at an option start
\* with no byte behind it: then it returns b without its last byte.
C24_EncodeDecode ==
    (res.called /\ ~res.throw /\ out.called) =>
        /\ ~out.abort
        /\ out.bytes = IF TrailingSeparator(bytes)
                       THEN SubSeq(bytes, 1, Len(bytes) - 1)
                       ELSE bytes

\* A buffer with a token, an option whose value is 0xFF and a separator as
\* its last byte, decoded and encoded again: one byte shorter.
C24_Witness ==
    /\ res.called
    /\ ~res.throw
    /\ out.called
    /\ TrailingSeparator(bytes)
    /\ Len(res.pdu._token) = 1
    /\ Len(res.pdu._options) = 1
    /\ res.pdu._options[1].value = << SeparatorByte >>
    /\ Len(out.bytes) = Len(bytes) - 1

====
